---- MODULE Spec2Model ----
(***************************************************************************)
(* Coffee & Connect 2026 schedule app (src/CWC.py).                        *)
(*                                                                         *)
(* Texts are sequences of tokens, clock times are minutes of the day,      *)
(* instants are minutes since 2026-01-01 00:00 in the fixed local zone.    *)
(* A pandas cell that holds no instant is either None (object column) or   *)
(* NaT (datetime column).  hist is a history variable: it records the     *)
(* first now, the largest gap and the rows reported by earlier refreshes.  *)
(***************************************************************************)
EXTENDS Integers, Sequences, FiniteSets, TLC

VARIABLES tstr, parsed, df_raw, df, out, now, up_1d, up_30m, hist

vars == <<tstr, parsed, df_raw, df, out, now, up_1d, up_30m, hist>>

(* ---------------- bounds of the model ---------------- *)
MaxTextLen == 5
MaxRows == 2
MaxRefreshes == 4

(* ---------------- program constants ---------------- *)
DefaultDurationMin == 30
MinutesPerDay == 1440
UtcOffsetMin == 330

None == -1
NaT == -2

(* ---------------- tokens of a text ---------------- *)
Tok(k, h, m) == [k |-> k, h |-> h, m |-> m]
HM(h, m) == Tok("hm", h, m)
Hyphen == Tok("-", 0, 0)
EnDash == Tok("endash", 0, 0)
Sp == Tok(" ", 0, 0)
Ctl == Tok("ctl", 0, 0)
Xd == Tok("_x000D_", 0, 0)
IST == Tok("IST", 0, 0)
Word == Tok("word", 0, 0)

Str(s) == [isStr |-> TRUE, s |-> s]
NotStr == [isStr |-> FALSE, s |-> <<>>]

(* ---------------- clean_text ---------------- *)
MapSeq(s, F(_)) == [i \in 1..Len(s) |-> F(s[i])]

SubArtifact(t) == IF t = Xd THEN Sp ELSE t
SubControl(t) == IF t = Ctl THEN Sp ELSE t

RECURSIVE LStrip(_)
LStrip(s) == IF s # <<>> /\ Head(s) = Sp THEN LStrip(Tail(s)) ELSE s

RECURSIVE RStrip(_)
RStrip(s) == IF s # <<>> /\ s[Len(s)] = Sp THEN RStrip(SubSeq(s, 1, Len(s) - 1)) ELSE s

Strip(s) == RStrip(LStrip(s))

RECURSIVE Collapse(_)
Collapse(s) ==
  IF Len(s) < 2 THEN s
  ELSE IF s[1] = Sp /\ s[2] = Sp THEN Collapse(Tail(s))
       ELSE <<s[1]>> \o Collapse(Tail(s))

JoinSplit(s) == Collapse(Strip(s))

clean_text(x) ==
  IF ~x.isStr THEN x
  ELSE Str(JoinSplit(MapSeq(MapSeq(x.s, SubArtifact), SubControl)))

(* ---------------- parse_time_range ---------------- *)
RECURSIVE RemoveIST(_)
RemoveIST(s) ==
  IF s = <<>> THEN <<>>
  ELSE IF Len(s) >= 2 /\ s[1] = Sp /\ s[2] = IST THEN RemoveIST(SubSeq(s, 3, Len(s)))
       ELSE <<s[1]>> \o RemoveIST(Tail(s))

(* faulty variant: the en-dash is not normalised *)
ReplaceEnDash_none(t) == t

ReplaceEnDash(t) == IF t = EnDash THEN Hyphen ELSE t

RECURSIVE SplitHyphen(_)
SplitHyphen(s) ==
  IF \A i \in 1..Len(s) : s[i] # Hyphen THEN <<s>>
  ELSE LET i == CHOOSE j \in 1..Len(s) : s[j] = Hyphen /\ \A k \in 1..(j - 1) : s[k] # Hyphen
       IN <<SubSeq(s, 1, i - 1)>> \o SplitHyphen(SubSeq(s, i + 1, Len(s)))

strptime_HM(p) ==
  IF Len(p) = 1 /\ p[1].k = "hm" /\ p[1].h \in 0..23 /\ p[1].m \in 0..59
  THEN p[1].h * 60 + p[1].m
  ELSE None

parse_time_range(x) ==
  IF ~x.isStr THEN [start |-> None, end |-> None]
  ELSE LET s0 == Strip(RemoveIST(clean_text(x).s))
           s == MapSeq(s0, ReplaceEnDash)
           parts == MapSeq(SplitHyphen(s), Strip)
       IN [start |-> strptime_HM(parts[1]),
           end |-> IF Len(parts) > 1 THEN strptime_HM(parts[2]) ELSE None]

(* ---------------- inputs of the time-range parser ---------------- *)
ParseTokens == {HM(15, 30), HM(16, 0), HM(25, 0), Hyphen, EnDash, Sp, IST}

RECURSIVE SeqsUpTo(_, _)
SeqsUpTo(S, n) ==
  IF n = 0 THEN {<<>>}
  ELSE LET R == SeqsUpTo(S, n - 1)
       IN R \cup {Append(r, x) : r \in {q \in R : Len(q) = n - 1}, x \in S}

ParseInputs(n) == {Str(s) : s \in SeqsUpTo(ParseTokens, n)} \cup {NotStr}

NotParsed == [done |-> FALSE, start |-> None, end |-> None]
Idle == [state |-> "idle"]
NoHist == [n |-> 0, first |-> 0, maxgap |-> 0, rep_1d |-> {}, rep_30m |-> {}, past |-> {}]

InitParse ==
  /\ tstr \in ParseInputs(MaxTextLen)
  /\ parsed = NotParsed
  /\ df_raw = Idle /\ df = Idle /\ out = Idle
  /\ now = 0 /\ up_1d = <<>> /\ up_30m = <<>> /\ hist = NoHist

ParseTimeRange ==
  /\ ~parsed.done
  /\ parsed' = [done |-> TRUE] @@ parse_time_range(tstr)
  /\ UNCHANGED <<tstr, df_raw, df, out, now, up_1d, up_30m, hist>>

NextParse == ParseTimeRange

SpecParse == InitParse /\ [][NextParse]_vars

(* ---------------- dates ---------------- *)
(* A Date cell: a text "YYYY-MM-DD" or a spreadsheet timestamp; DEmpty is the
   default of a table without the column. *)
DText(y, m, d) == [kind |-> "text", y |-> y, m |-> m, d |-> d]
DStamp(y, m, d) == [kind |-> "timestamp", y |-> y, m |-> m, d |-> d]
DEmpty == [kind |-> "empty", y |-> 0, m |-> 0, d |-> 0]

DaysInMonth == <<31, 28, 31, 30, 31, 30, 31, 31, 30, 31, 30, 31>>

RECURSIVE DaysBefore(_)
DaysBefore(m) == IF m = 1 THEN 0 ELSE DaysBefore(m - 1) + DaysInMonth[m - 1]

(* datetime.strptime(date_str, "%Y-%m-%d").date(), as a day number of 2026,
   the year of every date drawn here; str() of a timestamp or of NaN does not
   match the format *)
strptime_Ymd(c) ==
  IF c.kind = "text" /\ c.y = 2026 /\ c.m \in 1..12 /\ c.d \in 1..DaysInMonth[c.m]
  THEN DaysBefore(c.m) + (c.d - 1)
  ELSE None

combine(d, t) == d * MinutesPerDay + t

MonthOf(inst) ==
  LET day == inst \div MinutesPerDay
  IN CHOOSE m \in 1..12 : DaysBefore(m) <= day /\ day < DaysBefore(m) + DaysInMonth[m]

(* strftime("%a"): 0 = Mon .. 6 = Sun; 2026-01-01 is a Thursday *)
WeekdayOf(inst) == ((inst \div MinutesPerDay) + 3) % 7

(* ---------------- enrich_schedule ---------------- *)
expected_cols == {"Month #", "Month", "Week", "Date", "Day", "Time", "Location Focus",
                  "Team Focus", "Participants (4)", "Manager", "Notes", "Mode of Connect"}

(* a raw row keeps the cells the pipeline reads: Date, Time, Week, Month #, Day *)
Cell(row, col) ==
  CASE col = "Date" -> row.Date
    [] col = "Time" -> row.Time
    [] col = "Week" -> row.Week
    [] col = "Month #" -> row.MonthNum
    [] col = "Day" -> row.Day

Get(cols, row, col, default) == IF col \in cols THEN Cell(row, col) ELSE default

(* str(row.get("Time", "")).strip() *)
TimeStr(cols, row) ==
  LET v == Get(cols, row, "Time", Str(<<>>))
  IN IF v.isStr THEN Str(Strip(clean_text(v).s)) ELSE Str(<<Word>>)

(* faulty variant: a midnight start time counts as no start time *)
RowStartEnd_falsyMidnight(cols, row) ==
  LET d == strptime_Ymd(Get(cols, row, "Date", DEmpty))
      t == parse_time_range(TimeStr(cols, row))
      start_dt == IF d # None /\ t.start # None /\ t.start # 0 THEN combine(d, t.start) ELSE None
      end_dt == IF d # None /\ t.end # None THEN combine(d, t.end)
                ELSE IF start_dt # None THEN start_dt + DefaultDurationMin ELSE None
  IN [start |-> start_dt, end |-> end_dt]

(* faulty variant: no default end when the text has no end time *)
RowStartEnd_noDefault(cols, row) ==
  LET d == strptime_Ymd(Get(cols, row, "Date", DEmpty))
      t == parse_time_range(TimeStr(cols, row))
      start_dt == IF d # None /\ t.start # None THEN combine(d, t.start) ELSE None
      end_dt == IF d # None /\ t.end # None THEN combine(d, t.end) ELSE None
  IN [start |-> start_dt, end |-> end_dt]

RowStartEnd(cols, row) ==
  LET d == strptime_Ymd(Get(cols, row, "Date", DEmpty))
      t == parse_time_range(TimeStr(cols, row))
      start_dt == IF d # None /\ t.start # None THEN combine(d, t.start) ELSE None
      end_dt == IF d # None /\ t.end # None THEN combine(d, t.end)
                ELSE IF start_dt # None THEN start_dt + DefaultDurationMin ELSE None
  IN [start |-> start_dt, end |-> end_dt]

(* df[col] = list: a list holding an instant becomes a datetime column, whose
   missing cells are NaT; a list of None only (or empty) stays an object column *)
IsDatetimeColumn(cells) == \E i \in 1..Len(cells) : cells[i] >= 0
AsColumn(cells) ==
  IF IsDatetimeColumn(cells)
  THEN [i \in 1..Len(cells) |-> IF cells[i] >= 0 THEN cells[i] ELSE NaT]
  ELSE cells

IsNa(v) == v < 0

(* faulty variant: the week label is not a sort key *)
RowLeq_startOnly(a, b) ==
  \/ ~IsNa(a.Start) /\ (IsNa(b.Start) \/ a.Start <= b.Start)
  \/ IsNa(a.Start) /\ IsNa(b.Start)

(* sort_values(["Start (IST)", "Week"]): ascending, missing starts last *)
RowLeq(a, b) ==
  \/ ~IsNa(a.Start) /\ (IsNa(b.Start) \/ a.Start < b.Start)
  \/ (a.Start = b.Start \/ (IsNa(a.Start) /\ IsNa(b.Start))) /\ a.Week <= b.Week

RECURSIVE InsertRow(_, _)
InsertRow(sorted, r) ==
  IF sorted = <<>> THEN <<r>>
  ELSE IF RowLeq(Head(sorted), r) THEN <<Head(sorted)>> \o InsertRow(Tail(sorted), r)
       ELSE <<r>> \o sorted

RECURSIVE SortRows(_)
SortRows(rows) ==
  IF rows = <<>> THEN <<>>
  ELSE InsertRow(SortRows(SubSeq(rows, 1, Len(rows) - 1)), rows[Len(rows)])

DeriveMonth(cols, row, start) ==
  IF "Month #" \in cols THEN row.MonthNum
  ELSE IF IsNa(start) THEN None ELSE MonthOf(start)

DeriveDay(cols, row, start) ==
  IF "Day" \in cols THEN row.Day
  ELSE IF IsNa(start) THEN None ELSE WeekdayOf(start)

Raised(e) == [state |-> "raised", err |-> e, cols |-> {}, rows |-> <<>>]

(* lines 96-107, given the two lists the row loop has built *)
WithColumns(raw, starts, ends) ==
  LET n == Len(raw.rows)
      derives == {"Month #", "Day"} \ raw.cols
      rows == [i \in 1..n |->
                 [idx |-> i,
                  Date |-> Get(raw.cols, raw.rows[i], "Date", DEmpty),
                  Time |-> clean_text(Get(raw.cols, raw.rows[i], "Time", Str(<<>>))),
                  Week |-> Get(raw.cols, raw.rows[i], "Week", 0),
                  Start |-> starts[i],
                  End |-> ends[i],
                  MonthNum |-> DeriveMonth(raw.cols, raw.rows[i], starts[i]),
                  Day |-> DeriveDay(raw.cols, raw.rows[i], starts[i])]]
  IN IF derives # {} /\ ~IsDatetimeColumn(starts) THEN Raised("AttributeError")
     ELSE IF "Week" \notin raw.cols THEN Raised("KeyError")
     ELSE [state |-> "ok", err |-> "",
           cols |-> raw.cols \cup {"Start (IST)", "End (IST)", "Month #", "Day"},
           rows |-> SortRows(rows)]

enrich_schedule(raw) ==
  LET n == Len(raw.rows)
  IN CHOOSE res \in
       {WithColumns(raw, AsColumn([i \in 1..n |-> se[i].start]),
                         AsColumn([i \in 1..n |-> se[i].end])) :
          se \in {[i \in 1..n |-> RowStartEnd(raw.cols, raw.rows[i])]}} : TRUE

(* ---------------- upcoming_between ---------------- *)
Select(rows, P(_)) ==
  LET F[i \in 0..Len(rows)] ==
        IF i = 0 THEN <<>>
        ELSE IF P(rows[i]) THEN Append(F[i - 1], rows[i]) ELSE F[i - 1]
  IN F[Len(rows)]

Gt(cell, t) == ~IsNa(cell) /\ cell > t
Le(cell, t) == ~IsNa(cell) /\ cell <= t

Ge(cell, t) == ~IsNa(cell) /\ cell >= t
Lt(cell, t) == ~IsNa(cell) /\ cell < t

(* faulty variant: the window is closed at now *)
InWindow_closed(r, t, horizon) == Ge(r.Start, t) /\ Le(r.Start, t + horizon)

(* faulty variant: the window is open at now + horizon *)
InWindow_openEnd(r, t, horizon) == Gt(r.Start, t) /\ Lt(r.Start, t + horizon)

InWindow(r, t, horizon) == Gt(r.Start, t) /\ Le(r.Start, t + horizon)

StartLeq(a, b) ==
  \/ ~IsNa(a.Start) /\ (IsNa(b.Start) \/ a.Start <= b.Start)
  \/ IsNa(a.Start) /\ IsNa(b.Start)

RECURSIVE InsertByStart(_, _)
InsertByStart(sorted, r) ==
  IF sorted = <<>> THEN <<r>>
  ELSE IF StartLeq(Head(sorted), r) THEN <<Head(sorted)>> \o InsertByStart(Tail(sorted), r)
       ELSE <<r>> \o sorted

RECURSIVE SortByStart(_)
SortByStart(rows) ==
  IF rows = <<>> THEN <<>>
  ELSE InsertByStart(SortByStart(SubSeq(rows, 1, Len(rows) - 1)), rows[Len(rows)])

upcoming_between(rows, t, horizon) ==
  LET Mask(r) == InWindow(r, t, horizon)
  IN SortByStart(Select(rows, Mask))

(* ---------------- ics_from_rows ---------------- *)
Line(tag, v) == [tag |-> tag, v |-> v]

(* isinstance(cell, datetime): a Timestamp is one, and so is NaT; None is not *)
IsDatetimeInstance(cell) == cell # None

astimezone_utc(inst) == inst - UtcOffsetMin

VEvent(r) ==
  <<Line("BEGIN:VEVENT", 0),
    Line("UID", astimezone_utc(r.Start)),
    Line("DTSTAMP", astimezone_utc(r.Start)),
    Line("DTSTART", astimezone_utc(r.Start)),
    Line("DTEND", astimezone_utc(r.End)),
    Line("SUMMARY", r.Week),
    Line("DESCRIPTION", 0),
    Line("LOCATION", 0),
    Line("END:VEVENT", 0)>>

IcsHeader ==
  <<Line("BEGIN:VCALENDAR", 0), Line("VERSION:2.0", 0), Line("PRODID", 0), Line("X-WR-CALNAME", 0)>>

(* NaT passes the isinstance test and NaT.astimezone raises ValueError *)
ics_from_rows(rows) ==
  LET F[i \in 0..Len(rows)] ==
        IF i = 0 THEN [state |-> "ok", lines |-> IcsHeader]
        ELSE LET acc == F[i - 1]
                 r == rows[i]
             IN IF acc.state # "ok" THEN acc
                ELSE IF ~IsDatetimeInstance(r.Start) \/ ~IsDatetimeInstance(r.End) THEN acc
                ELSE IF r.Start = NaT \/ r.End = NaT THEN [state |-> "raised", lines |-> <<>>]
                ELSE [state |-> "ok", lines |-> acc.lines \o VEvent(r)]
      res == F[Len(rows)]
  IN IF res.state = "ok"
     THEN [state |-> "ok", lines |-> Append(res.lines, Line("END:VCALENDAR", 0))]
     ELSE res

(* ---------------- the tables a load can give ---------------- *)
RawRow(date, time, week, supplied) ==
  [Date |-> date, Time |-> time, Week |-> week,
   MonthNum |-> IF supplied THEN date.m ELSE None,
   Day |-> IF supplied /\ strptime_Ymd(date) # None
           THEN WeekdayOf(combine(strptime_Ymd(date), 0)) ELSE None]

DateA == DText(2026, 3, 10)
DateB == DText(2026, 4, 1)
DateBad == DText(2026, 2, 30)
DateStamp == DStamp(2026, 3, 10)

TimeFull == Str(<<HM(15, 30), EnDash, HM(16, 0), Sp, IST>>)
TimeStartOnly == Str(<<HM(15, 30), Sp, IST>>)
TimeReversed == Str(<<HM(16, 0), Hyphen, HM(15, 30)>>)
TimeEndOnly == Str(<<Hyphen, HM(16, 0)>>)
TimeMidnight == Str(<<Ctl, HM(0, 0)>>)
TimeLate == Str(<<HM(23, 45), Xd>>)
TimeGarbage == Str(<<Word>>)

WeekLabels == {1, 2}

DateTimeChoices ==
  {<<DateA, TimeFull>>, <<DateA, TimeStartOnly>>, <<DateA, TimeReversed>>,
   <<DateA, TimeEndOnly>>, <<DateA, TimeMidnight>>, <<DateA, TimeLate>>,
   <<DateA, TimeGarbage>>, <<DateA, NotStr>>,
   <<DateB, TimeFull>>, <<DateBad, TimeFull>>, <<DateStamp, TimeStartOnly>>}

RawRowChoices ==
  {RawRow(dt[1], dt[2], 1, TRUE) : dt \in DateTimeChoices}
    \cup {RawRow(DateA, TimeFull, 2, TRUE), RawRow(DateA, TimeStartOnly, 2, TRUE),
          RawRow(DateB, TimeFull, 2, TRUE), RawRow(DateBad, TimeFull, 2, TRUE)}
    \cup {RawRow(DateA, TimeFull, 1, FALSE), RawRow(DateBad, TimeFull, 1, FALSE)}

(* the rows of the tables that lack a column *)
FewRowChoices ==
  {RawRow(DateA, TimeFull, 1, TRUE), RawRow(DateB, TimeStartOnly, 2, TRUE),
   RawRow(DateBad, TimeFull, 1, TRUE)}

MissingChoices == {{c} : c \in expected_cols}

RawTables(n) ==
  {[cols |-> expected_cols, rows |-> r] : r \in SeqsUpTo(RawRowChoices, n)}
    \cup {[cols |-> expected_cols \ m, rows |-> r] :
            m \in MissingChoices, r \in SeqsUpTo(FewRowChoices, n)}

S0 == combine(strptime_Ymd(DateA), 930)
NowChoices == {S0 - MinutesPerDay - 1, S0 - MinutesPerDay, S0 - DefaultDurationMin, S0 - 1, S0}
Horizons == {DefaultDurationMin, MinutesPerDay}

NoOut == [op |-> "none", now |-> 0, horizon |-> 0, rows |-> <<>>, state |-> "", lines |-> <<>>]

Init ==
  /\ df_raw \in RawTables(MaxRows)
  /\ df = [state |-> "idle", err |-> "", cols |-> {}, rows |-> <<>>, warned |-> FALSE]
  /\ out = NoOut
  /\ tstr = NotStr /\ parsed = NotParsed
  /\ now = 0 /\ up_1d = <<>> /\ up_30m = <<>> /\ hist = NoHist

(* lines 284-294: the missing-column note, then df = enrich_schedule(df_raw) *)
LoadAndEnrich ==
  /\ df.state = "idle"
  /\ LET missing == expected_cols \ df_raw.cols
     IN df' = [warned |-> missing # {}] @@ enrich_schedule(df_raw)
  /\ UNCHANGED <<tstr, parsed, df_raw, out, now, up_1d, up_30m, hist>>

UpcomingBetween ==
  /\ df.state = "ok"
  /\ \E t \in NowChoices, h \in Horizons :
       out' = [NoOut EXCEPT !.op = "upcoming", !.now = t, !.horizon = h,
                            !.rows = upcoming_between(df.rows, t, h)]
  /\ UNCHANGED <<tstr, parsed, df_raw, df, now, up_1d, up_30m, hist>>

IcsFromRows ==
  /\ df.state = "ok"
  /\ LET res == ics_from_rows(df.rows)
     IN out' = [NoOut EXCEPT !.op = "ics", !.state = res.state, !.lines = res.lines]
  /\ UNCHANGED <<tstr, parsed, df_raw, df, now, up_1d, up_30m, hist>>

Next == LoadAndEnrich \/ UpcomingBetween \/ IcsFromRows

Spec == Init /\ [][Next]_vars

(* ---------------- the periodic refresh ---------------- *)
RefreshTables ==
  {[cols |-> expected_cols, rows |-> r] :
     r \in {<<RawRow(DateA, TimeStartOnly, 1, TRUE)>>,
            <<RawRow(DateA, TimeReversed, 1, TRUE), RawRow(DateA, TimeFull, 2, TRUE)>>,
            <<RawRow(DateBad, TimeFull, 1, TRUE), RawRow(DateA, TimeFull, 1, TRUE)>>,
            <<RawRow(DateA, TimeMidnight, 2, TRUE), RawRow(DateA, TimeLate, 1, TRUE)>>}}

FirstNows == {S0 - MinutesPerDay - 1, S0 - MinutesPerDay, S0 - DefaultDurationMin - 1,
              S0 - DefaultDurationMin, S0 - 1, S0}
Gaps == {0, 1, DefaultDurationMin - 1, DefaultDurationMin, MinutesPerDay - DefaultDurationMin,
         MinutesPerDay - 1, MinutesPerDay}

Idxs(rows) == {rows[i].idx : i \in 1..Len(rows)}
Started(rows, t) == {rows[i].idx : i \in {j \in 1..Len(rows) : Le(rows[j].Start, t)}}
Max(a, b) == IF a >= b THEN a ELSE b

InitRefresh ==
  /\ df_raw \in RefreshTables
  /\ df = [state |-> "idle", err |-> "", cols |-> {}, rows |-> <<>>, warned |-> FALSE]
  /\ out = NoOut
  /\ tstr = NotStr /\ parsed = NotParsed
  /\ now = 0 /\ up_1d = <<>> /\ up_30m = <<>> /\ hist = NoHist

(* one run of the script: lines 278-294 (load, enrich) and 329-347 (now, up_1d, up_30m);
   hist records what the earlier runs reported *)
RefreshAt(t) ==
  /\ df' = [warned |-> expected_cols \ df_raw.cols # {}] @@ enrich_schedule(df_raw)
  /\ now' = t
  /\ up_1d' = upcoming_between(df'.rows, t, MinutesPerDay)
  /\ up_30m' = upcoming_between(df'.rows, t, DefaultDurationMin)
  /\ hist' = [n |-> hist.n + 1,
              first |-> IF hist.n = 0 THEN t ELSE hist.first,
              maxgap |-> IF hist.n = 0 THEN 0 ELSE Max(hist.maxgap, t - now),
              rep_1d |-> hist.rep_1d \cup Idxs(up_1d'),
              rep_30m |-> hist.rep_30m \cup Idxs(up_30m'),
              past |-> hist.past \cup Started(df'.rows, t)]
  /\ UNCHANGED <<tstr, parsed, df_raw, out>>

FirstRefresh == hist.n = 0 /\ \E t \in FirstNows : RefreshAt(t)

AutoRefresh == hist.n > 0 /\ hist.n < MaxRefreshes /\ \E g \in Gaps : RefreshAt(now + g)

NextRefresh == FirstRefresh \/ AutoRefresh

SpecRefresh == InitRefresh /\ [][NextRefresh]_vars

(* ======================= properties ======================= *)
RowsOf(seq) == {seq[i] : i \in 1..Len(seq)}
RawOf(r) == df_raw.rows[r.idx]
HasCol(c) == c \in df_raw.cols

(* C1: upcoming_between returns exactly the rows of the table whose start S
   satisfies now < S <= now + H, each once; a row with S = now is left out, a
   row with S = now + H is returned, a row without a start is never returned. *)
C1_UpcomingExactWindow ==
  out.op = "upcoming" =>
    /\ \A r \in RowsOf(df.rows) :
         (r \in RowsOf(out.rows))
           <=> (r.Start >= 0 /\ out.now < r.Start /\ r.Start <= out.now + out.horizon)
    /\ RowsOf(out.rows) \subseteq RowsOf(df.rows)
    /\ Cardinality(RowsOf(out.rows)) = Len(out.rows)

C1_Witness ==
  /\ out.op = "upcoming"
  /\ \E r \in RowsOf(df.rows) : r.Start = out.now /\ r \notin RowsOf(out.rows)
  /\ \E r \in RowsOf(df.rows) : r.Start = out.now + out.horizon /\ r \in RowsOf(out.rows)

(* C2: every enriched row with a start has an end that is not before it. *)
C2_EndNotBeforeStart ==
  df.state = "ok" => \A r \in RowsOf(df.rows) : r.Start >= 0 => r.End >= r.Start

(* C3: a row's start is present exactly when its Date is a strict YYYY-MM-DD
   date and its Time gives a start clock time (00:00 included). *)
StrictDates == {DateA, DateB}
TimesWithStart == {TimeFull, TimeStartOnly, TimeReversed, TimeMidnight, TimeLate}

C3_StartPresentIff ==
  df.state = "ok" =>
    \A r \in RowsOf(df.rows) :
      (r.Start >= 0)
        <=> (/\ HasCol("Date") /\ RawOf(r).Date \in StrictDates
             /\ HasCol("Time") /\ RawOf(r).Time \in TimesWithStart)

C3_Witness ==
  /\ df.state = "ok"
  /\ \E r \in RowsOf(df.rows) : RawOf(r).Time = TimeMidnight /\ r.Start >= 0
  /\ \E r \in RowsOf(df.rows) : RawOf(r).Date = DateStamp /\ r.Start < 0

(* C4: the end is the date at the end clock time when both exist; otherwise the
   start plus 30 minutes when the start exists; otherwise absent. Date
   2026-03-10 with Time "15:30 IST" ends at 16:00 local. *)
ExpectedDay(c) == IF c = DateA THEN 68 ELSE IF c = DateB THEN 90 ELSE None
ExpectedEndClock(t) ==
  IF t \in {TimeFull, TimeEndOnly} THEN 16 * 60
  ELSE IF t = TimeReversed THEN 15 * 60 + 30 ELSE None

C4_EndThreeWayRule ==
  df.state = "ok" =>
    \A r \in RowsOf(df.rows) :
      LET d == IF HasCol("Date") THEN ExpectedDay(RawOf(r).Date) ELSE None
          e == IF HasCol("Time") THEN ExpectedEndClock(RawOf(r).Time) ELSE None
      IN /\ IF d # None /\ e # None THEN r.End = d * 1440 + e
            ELSE IF r.Start >= 0 THEN r.End = r.Start + 30
            ELSE r.End < 0
         /\ (HasCol("Date") /\ HasCol("Time") /\ RawOf(r).Date = DateA
               /\ RawOf(r).Time = TimeStartOnly) => r.End = 68 * 1440 + 16 * 60

C4_Witness ==
  /\ df.state = "ok"
  /\ \E r \in RowsOf(df.rows) :
       RawOf(r).Date = DateA /\ RawOf(r).Time = TimeStartOnly /\ r.End = 68 * 1440 + 16 * 60
  /\ \E r \in RowsOf(df.rows) : r.Start < 0 /\ r.End >= 0

(* C5: ics_from_rows raises no error and writes one VEVENT block for each row
   that has both instants, in the order of the rows, and none for the others. *)
Complete(r) == r.Start >= 0 /\ r.End >= 0
DtStarts(lines) == Select(lines, LAMBDA l : l.tag = "DTSTART")
Begins(lines) == Select(lines, LAMBDA l : l.tag = "BEGIN:VEVENT")
Ends(lines) == Select(lines, LAMBDA l : l.tag = "END:VEVENT")

C5_IcsOneBlockPerCompleteRow ==
  out.op = "ics" =>
    /\ out.state = "ok"
    /\ LET want == Select(df.rows, Complete)
           got == DtStarts(out.lines)
       IN /\ Len(Begins(out.lines)) = Len(want)
          /\ Len(Ends(out.lines)) = Len(want)
          /\ Len(got) = Len(want)
          /\ \A i \in 1..Len(want) : got[i].v = want[i].Start - 330

(* C6: with an expected column missing, a warning is issued and
   enrich_schedule still returns an enriched table. *)
C6_MissingColumnTolerated ==
  (df.state # "idle" /\ expected_cols \ df_raw.cols # {}) =>
    (df.warned /\ df.state = "ok")

(* C8: the enriched table is ordered by start, then by week label, and the rows
   without a start all lie on one side of the rows that have one. *)
C8_SortedByStartThenWeek ==
  df.state = "ok" =>
    LET rows == df.rows
        n == Len(rows)
    IN /\ \A i \in 1..n : \A j \in (i + 1)..n :
            (rows[i].Start >= 0 /\ rows[j].Start >= 0) =>
              /\ rows[i].Start <= rows[j].Start
              /\ rows[i].Start = rows[j].Start => rows[i].Week <= rows[j].Week
       /\ \/ \A i \in 1..n : \A j \in (i + 1)..n : rows[i].Start < 0 => rows[j].Start < 0
          \/ \A i \in 1..n : \A j \in (i + 1)..n : rows[j].Start < 0 => rows[i].Start < 0

C8_Witness ==
  /\ df.state = "ok" /\ Len(df.rows) = 2
  /\ df.rows[1].idx = 2
  /\ df.rows[1].Start >= 0 /\ df.rows[1].Start = df.rows[2].Start
  /\ df.rows[1].Week < df.rows[2].Week

(* C9: a row whose Month # (Day) the source does not supply, because the column
   is absent or the cell is blank, gets the month (weekday) of its start, or
   nothing when it has no start. *)
C9_DerivedPerRow ==
  df.state = "ok" =>
    \A r \in RowsOf(df.rows) :
      /\ (~HasCol("Month #") \/ RawOf(r).MonthNum = None) =>
           r.MonthNum = (IF r.Start >= 0 THEN MonthOf(r.Start) ELSE None)
      /\ (~HasCol("Day") \/ RawOf(r).Day = None) =>
           r.Day = (IF r.Start >= 0 THEN WeekdayOf(r.Start) ELSE None)

(* C7: parse_time_range gives both clock times of "HH:MM-HH:MM" (hyphen or
   en-dash, " IST" optional), the start alone of "HH:MM", and nothing for a
   text without a clock time or for a value that is not a text. *)
IsClock(t) == t.k = "hm" /\ t.h \in 0..23 /\ t.m \in 0..59
Minutes(t) == t.h * 60 + t.m
Clocks == {t \in ParseTokens : IsClock(t)}
Suffixes == {<<>>, <<Sp, IST>>}

C7_ParseShapes ==
  parsed.done =>
    /\ ~tstr.isStr => (parsed.start = None /\ parsed.end = None)
    /\ tstr.isStr =>
         /\ \A a \in Clocks, b \in Clocks, sep \in {Hyphen, EnDash}, suf \in Suffixes :
              tstr.s = <<a, sep, b>> \o suf =>
                (parsed.start = Minutes(a) /\ parsed.end = Minutes(b))
         /\ \A a \in Clocks, suf \in Suffixes :
              tstr.s = <<a>> \o suf => (parsed.start = Minutes(a) /\ parsed.end = None)
         /\ (\A i \in 1..Len(tstr.s) : ~IsClock(tstr.s[i])) =>
              (parsed.start = None /\ parsed.end = None)

C7_Witness ==
  /\ parsed.done
  /\ tstr = TimeFull
  /\ parsed.start = 15 * 60 + 30
  /\ parsed.end = 16 * 60

(* C10: over refreshes whose now never decreases, a row with start S is in the
   H window exactly when S - H <= now < S; it is never reported at or after a
   refresh with now >= S; when the first refresh is before S and consecutive
   refreshes are less than H apart, it has been reported by the time now >= S;
   the 30-minute rows are among the 1-day rows. *)
C10_RefreshWindows ==
  hist.n > 0 =>
    /\ \A r \in RowsOf(df.rows) :
         /\ r.Start < 0 => (r.idx \notin Idxs(up_1d) /\ r.idx \notin Idxs(up_30m))
         /\ r.Start >= 0 =>
              /\ (r.idx \in Idxs(up_1d)) <=> (r.Start - 1440 <= now /\ now < r.Start)
              /\ (r.idx \in Idxs(up_30m)) <=> (r.Start - 30 <= now /\ now < r.Start)
              /\ r.idx \in hist.past => (r.idx \notin Idxs(up_1d) /\ r.idx \notin Idxs(up_30m))
              /\ (hist.first < r.Start /\ hist.maxgap < 1440 /\ now >= r.Start)
                   => r.idx \in hist.rep_1d
              /\ (hist.first < r.Start /\ hist.maxgap < 30 /\ now >= r.Start)
                   => r.idx \in hist.rep_30m
    /\ Idxs(up_30m) \subseteq Idxs(up_1d)
    /\ Idxs(up_1d) \subseteq Idxs(df.rows)

C10_Witness ==
  /\ hist.n > 1
  /\ hist.maxgap < 30
  /\ \E r \in RowsOf(df.rows) :
       /\ r.Start >= 0 /\ hist.first < r.Start /\ now >= r.Start
       /\ r.idx \in hist.rep_30m /\ r.idx \in hist.past
       /\ r.idx \notin Idxs(up_30m)

====
